---- MODULE Spec2Model ----
(***************************************************************************)
(* Model of the acknowledged message queue of broker/queue/MessageQueue.py *)
(* (class MessageQueue with its background cleanup thread).                *)
(*                                                                         *)
(* Threads: any number of producers (enqueue is one step on the            *)
(* thread-safe queue.Queue), the consumers of Consumers (dequeue is two    *)
(* steps: queue.get, then the insertion into pending_ack under self.lock), *)
(* callers of acknowledge, and the cleanup thread, which holds self.lock   *)
(* for a whole scan while producers and consumers keep using queue.Queue.  *)
(*                                                                         *)
(* Time is kept relative: age[i] is time.time() - message.timestamp of     *)
(* message i, in seconds, advanced by Tick in steps of ack_timeout and     *)
(* saturated once it exceeds ack_timeout (the code only compares it with   *)
(* ack_timeout): a message is new (0), exactly at the timeout, or past it. *)
(* The sleep of the cleanup thread is shorter than one step of the clock,  *)
(* so a scan may start at any time.                                        *)
(*                                                                         *)
(* LockSpec adds the two size accessors to the threads above.              *)
(*                                                                         *)
(* The module also holds the tasks of MessageQueue.py (TaskSpec), the heap *)
(* of broker/queue/PriorityQueue.py (PQSpec) with its consumer threads     *)
(* (ConsumerSpec), the room registry and broadcast of                      *)
(* api/websocket_gateway/ConnectionManager.py (RegistrySpec, QuerySpec,    *)
(* BroadcastSpec, SnapshotSpec), the handlers of its WebSocket endpoint    *)
(* (EndpointSpec) and the session table of sessions/SessionManager.py      *)
(* (SessionSpec). Each specification moves the variables of its own        *)
(* component and leaves the others as Init set them.                       *)
(***************************************************************************)
EXTENDS Integers, Sequences, FiniteSets, TLC

\* Bounds of the model.
MaxMsgs == 3            \* messages ever created (uuid4 ids are 1..MaxMsgs)
MaxSize == 2            \* max_size of the queue under check

\* Program constant (seconds).
ack_timeout == 30

Ids == 1..MaxMsgs
Consumers == {"c1", "c2"}
Producers == {"p1", "p2"}
NoId == 0

\* Saturation point of the relative clocks: the first step above ack_timeout.
AgeCap == ack_timeout + ack_timeout

VARIABLES
    nextId,        \* number of Message objects created so far, plus one
    age,           \* age[i]: now - message.timestamp
    acknowledged,  \* acknowledged[i]: Message.acknowledged
    queue,         \* self.queue (queue.Queue), head first
    pending,       \* keys of self.pending_ack, in dict insertion order
    lock,          \* holder of self.lock: "free", "reaper" (acknowledge and
                   \* the insertion of dequeue take and release it in one step)
    cpc,           \* cpc[c]: where consumer c is inside dequeue()
    held,          \* held[c]: the message c got from queue.get
    rpc,           \* cleanup thread: "sleep", "scan", "dead"
    todo,          \* entries of the scan's snapshot still to requeue
    rerr,          \* message whose put_nowait raised in the cleanup thread
    last,          \* the call that returned in the step just taken, if any
    accepted,      \* history: messages whose put_nowait in enqueue succeeded
    requeued,      \* history: messages ever requeued by the cleanup thread
    deqAge,        \* history: deqAge[i]: time since queue.get returned i, while
                   \* i is with a consumer or in pending_ack (0 otherwise)
    made,          \* made[p]: the Message publisher p created and has not put yet
    proc,          \* proc[c]: the message subscriber c is processing
    \* broker/queue/PriorityQueue.py, class PriorityQueue
    heap,          \* self.queue: the heapq list of (priority, counter, message)
    counter,       \* self.counter
    pqLock,        \* holder of self.lock: "free" or the thread inside enqueue
    ppc,           \* ppc[p]: where thread p is inside enqueue()
    parg,          \* parg[p]: the arguments of p's enqueue call
    pret,          \* the PriorityQueue call that returned in the step just taken
    issued,        \* history: sequence numbers ever given to an enqueue
    grants,        \* history: arguments of the enqueue calls since the last
                   \* clear, in the order in which they got self.lock
    prevHolder,    \* history: the thread that released self.lock last
    epochSeqs,     \* history: sequence numbers given since the last clear
    taken,         \* history: what dequeue returned since the last clear
    kpc,           \* kpc[k]: where thread k is inside the loop of consumer()
    \* api/websocket_gateway/ConnectionManager.py
    active_connections,  \* active_connections[room]: the list of WebSockets
    user_rooms,    \* user_rooms[user]: the list of rooms
    roomKeys,      \* keys the defaultdict active_connections holds
    userKeys,      \* keys the defaultdict user_rooms holds
    closed,        \* closed[h]: the transport of WebSocket h is closed
    ipc,           \* ipc[w]: "running" while coroutine w walks a list
    iroom,         \* iroom[w]: the room w was called for
    iidx,          \* iidx[w]: elements the list iterator of w has handed out
    ilive,         \* ilive[w]: the list w walks is the one the dict holds
    idet,          \* idet[w]: the list w walks, when the dict no longer has it
    attempted,     \* history: connections the current or last broadcast
                   \* called send_text on, in order
    changed,       \* history: the list of the room changed while the
                   \* broadcast that runs, or returned in the step just
                   \* taken, was suspended in a send
    snapshot,      \* history: the list of the room when that broadcast started
    parted,        \* history: handles disconnected from the room meanwhile
    cret,          \* the registry call that returned in the step just taken
    \* ConnectionManager.py, websocket_endpoint: one handler per WebSocket
    hpc,           \* hpc[h]: where the handler of h is: "none", "receiving",
                   \* "broadcasting" (line 58), "leaving" (line 61), "done"
    hroom,         \* hroom[h]: the room of the handler's path
    hidx,          \* hidx[h]: elements the handler's broadcast has consumed
    hlive,         \* hlive[h]: the list that broadcast walks is still the one
                   \* in active_connections (else it is an empty list)
    \* sessions/SessionManager.py, class SessionManager
    nextSid,       \* number of Session objects created so far, plus one
    sessions,      \* keys of self.sessions
    sowner,        \* sowner[sid]: Session.user_id
    sactive,       \* sactive[sid]: Session.is_active
    sexpired,      \* sexpired[sid]: utcnow() is past Session.expires_at
    user_sessions, \* self.user_sessions: user -> session id, NoSid if absent
    smLock,        \* self.lock: "free" or "held"
    spos,          \* the calling thread: "idle", "outer" (inside the with
                   \* block of a method that calls another), "blocked"
    scall,         \* the method the thread is in, and its argument
    sret           \* the SessionManager call that returned in the step just
                   \* taken

vars == <<nextId, age, acknowledged, queue, pending, lock, cpc, held, rpc,
          todo, rerr, last, accepted, requeued, deqAge>>

\* State of publisher_task and subscriber_task.
taskVars == <<made, proc>>

\* State of the PriorityQueue.
pqVars == <<heap, counter, pqLock, ppc, parg, pret, issued, grants,
            prevHolder, epochSeqs, taken>>

\* PriorityQueue.py, the threads running consumer()
consVars == <<kpc>>

Range(s) == {s[k] : k \in 1..Len(s)}

Min(a, b) == IF a < b THEN a ELSE b

\* dict.pop(key) on the key sequence
Pop(s, i) == SelectSeq(s, LAMBDA x : x # i)

\* dict[key] = value: a new key goes last, an existing key keeps its place
Put(s, i) == IF i \in Range(s) THEN s ELSE Append(s, i)

\* Mutant of Full: the bound is checked off by one.
Full_OffByOne(q) == Len(q) > MaxSize

\* queue.Queue.full()
Full(q) == Len(q) >= MaxSize

\* line 62: not message.acknowledged and (now - message.timestamp) > self.ack_timeout
Expired(i) == ~acknowledged[i] /\ age[i] > ack_timeout

\* State of the ConnectionManager and of the coroutines using it.
cmVars == <<active_connections, user_rooms, roomKeys, userKeys, closed, ipc,
            iroom, iidx, ilive, idet, attempted, changed, snapshot, parted,
            cret>>

\* Arguments of the calls on the ConnectionManager
Rooms == {"r1", "r2"}
Users == {"u1", "u2"}
Handles == {"h1", "h2"}

\* user_id of the connection a WebSocket belongs to.
Owner(h) == IF h = "h1" THEN "u1" ELSE "u2"

\* The coroutines that walk a list of a room.
Walkers == {"broadcast", "disconnect_all"}

\* What a call on the registry gave back: raised for an exception leaving it.
CReturned(op, raised) == [op |-> op, raised |-> raised]

CNoReturn == CReturned("none", FALSE)

\* A query accessor called with key returned val.
CQueried(op, key, val) ==
    [op |-> op, raised |-> FALSE, key |-> key, val |-> val]

\* Arguments of PriorityQueue.enqueue(priority, message)
Priorities == {1, 5}
Messages == {"a", "b", "c"}
NoArg == <<0, "None">>

\* What a PriorityQueue call gave back: raised for IndexError, seq and msg for
\* the pair of dequeue, msg for peek, n for size and is_empty.
PReturned(op, raised, seq, msg, n) ==
    [op |-> op, raised |-> raised, seq |-> seq, msg |-> msg, n |-> n]

PNoReturn == PReturned("none", FALSE, 0, "None", 0)

Returned(op, i, v) == [op |-> op, id |-> i, ret |-> v]

\* No call returned in the step.
NoReturn == Returned("none", NoId, "None")

\* ConnectionManager.py, the handlers of websocket_endpoint
epVars == <<hpc, hroom, hidx, hlive>>

\* sessions/SessionManager.py
smVars == <<nextSid, sessions, sowner, sactive, sexpired, user_sessions,
            smLock, spos, scall, sret>>

\* Bound of the model: Session objects ever created (uuid4 ids are
\* 1..MaxSessions).
MaxSessions == 3

Sids == 1..MaxSessions
NoSid == 0
NoUser == "none"

\* The methods that call another method of the manager inside their own
\* with self.lock block (is_user_active takes no lock itself and calls
\* get_session_by_user).
Nesting == {"get_session_by_user", "is_user_active", "refresh_session",
            "terminate_session_by_user", "clean_expired_sessions"}

\* A SessionManager call: its name and its user_id or session_id argument.
SCall(op, user, sid) == [op |-> op, user |-> user, sid |-> sid]

SNoCall == SCall("none", NoUser, NoSid)

\* What a SessionManager call gave back: the sessions returned (none for
\* None), and the boolean of the terminate methods.
SReturned(op, val, ok) == [op |-> op, val |-> val, ok |-> ok]

SNoReturn == SReturned("none", {}, FALSE)

Init ==
    /\ nextId = 1
    /\ age = [i \in Ids |-> 0]
    /\ acknowledged = [i \in Ids |-> FALSE]
    /\ queue = <<>>
    /\ pending = <<>>
    /\ lock = "free"
    /\ cpc = [c \in Consumers |-> "idle"]
    /\ held = [c \in Consumers |-> NoId]
    /\ rpc = "sleep"
    /\ todo = <<>>
    /\ rerr = NoId
    /\ last = NoReturn
    /\ accepted = {}
    /\ requeued = {}
    /\ deqAge = [i \in Ids |-> 0]
    /\ made = [p \in Producers |-> NoId]
    /\ proc = [c \in Consumers |-> NoId]
    /\ heap = <<>>
    /\ counter = 0
    /\ pqLock = "free"
    /\ ppc = [p \in Producers |-> "idle"]
    /\ parg = [p \in Producers |-> NoArg]
    /\ pret = PNoReturn
    /\ issued = {}
    /\ grants = <<>>
    /\ prevHolder = "none"
    /\ epochSeqs = <<>>
    /\ taken = <<>>
    /\ kpc = [k \in Consumers |-> "idle"]
    /\ active_connections = [r \in Rooms |-> <<>>]
    /\ user_rooms = [u \in Users |-> <<>>]
    /\ roomKeys = {}
    /\ userKeys = {}
    /\ closed = [h \in Handles |-> FALSE]
    /\ ipc = [w \in Walkers |-> "idle"]
    /\ iroom = [w \in Walkers |-> "r1"]
    /\ iidx = [w \in Walkers |-> 0]
    /\ ilive = [w \in Walkers |-> FALSE]
    /\ idet = [w \in Walkers |-> <<>>]
    /\ attempted = <<>>
    /\ changed = FALSE
    /\ snapshot = <<>>
    /\ parted = {}
    /\ cret = CNoReturn
    /\ hpc = [h \in Handles |-> "none"]
    /\ hroom = [h \in Handles |-> "r1"]
    /\ hidx = [h \in Handles |-> 0]
    /\ hlive = [h \in Handles |-> FALSE]
    /\ nextSid = 1
    /\ sessions = {}
    /\ sowner = [sid \in Sids |-> NoUser]
    /\ sactive = [sid \in Sids |-> FALSE]
    /\ sexpired = [sid \in Sids |-> FALSE]
    /\ user_sessions = [u \in Users |-> NoSid]
    /\ smLock = "free"
    /\ spos = "idle"
    /\ scall = SNoCall
    /\ sret = SNoReturn

\* MessageQueue.enqueue: Message(content, priority), put_nowait, and the
\* message is returned whether or not put_nowait raised queue.Full.
Enqueue ==
    /\ nextId <= MaxMsgs
    /\ nextId' = nextId + 1
    /\ age' = [age EXCEPT ![nextId] = 0]
    /\ IF Full(queue)
         THEN UNCHANGED <<queue, accepted>>
         ELSE /\ queue' = Append(queue, nextId)
              /\ accepted' = accepted \cup {nextId}
    /\ last' = Returned("enqueue", nextId, "Message")
    /\ UNCHANGED <<acknowledged, pending, lock, cpc, held, rpc, todo,
                   rerr, requeued, deqAge>>

\* Mutant of Get: the newest message is taken (a LIFO queue).
Get_Lifo(c) ==
    /\ cpc[c] = "idle"
    /\ queue # <<>>
    /\ held' = [held EXCEPT ![c] = queue[Len(queue)]]
    /\ queue' = SubSeq(queue, 1, Len(queue) - 1)
    /\ cpc' = [cpc EXCEPT ![c] = "got"]
    /\ deqAge' = [deqAge EXCEPT ![queue[Len(queue)]] = 0]
    /\ last' = NoReturn
    /\ UNCHANGED <<nextId, age, acknowledged, pending, lock, rpc, todo,
                   rerr, accepted, requeued>>

\* MessageQueue.dequeue, line 38: queue.get(timeout=1) with a message there.
Get(c) ==
    /\ cpc[c] = "idle"
    /\ queue # <<>>
    /\ held' = [held EXCEPT ![c] = Head(queue)]
    /\ queue' = Tail(queue)
    /\ cpc' = [cpc EXCEPT ![c] = "got"]
    /\ deqAge' = [deqAge EXCEPT ![Head(queue)] = 0]
    /\ last' = NoReturn
    /\ UNCHANGED <<nextId, age, acknowledged, pending, lock, rpc, todo,
                   rerr, accepted, requeued>>

\* MessageQueue.dequeue, lines 39-42: with self.lock, pending_ack[id] = message.
Insert(c) ==
    /\ cpc[c] = "got"
    /\ lock = "free"
    /\ pending' = Put(pending, held[c])
    /\ last' = Returned("dequeue", held[c], "Message")
    /\ cpc' = [cpc EXCEPT ![c] = "idle"]
    /\ held' = [held EXCEPT ![c] = NoId]
    /\ UNCHANGED <<nextId, age, acknowledged, queue, lock, rpc, todo,
                   rerr, accepted, requeued, deqAge>>

\* Mutant of GetEmpty: queue.Empty is not caught and leaves dequeue.
GetEmpty_Raises(c) ==
    /\ cpc[c] = "idle"
    /\ queue = <<>>
    /\ last' = Returned("dequeue", NoId, "Empty")
    /\ UNCHANGED <<nextId, age, acknowledged, queue, pending, lock, cpc, held,
                   rpc, todo, rerr, accepted, requeued, deqAge>>

\* MessageQueue.dequeue, lines 43-45: queue.get timed out, None is returned.
GetEmpty(c) ==
    /\ cpc[c] = "idle"
    /\ queue = <<>>
    /\ last' = Returned("dequeue", NoId, "None")
    /\ UNCHANGED <<nextId, age, acknowledged, queue, pending, lock, cpc, held,
                   rpc, todo, rerr, accepted, requeued, deqAge>>

\* Mutant of Acknowledge: the entry is read with get instead of pop.
Acknowledge_NoPop(i) ==
    /\ lock = "free"
    /\ IF i \in Range(pending)
         THEN /\ acknowledged' = [acknowledged EXCEPT ![i] = TRUE]
              /\ last' = Returned("acknowledge", i, "True")
         ELSE /\ UNCHANGED acknowledged
              /\ last' = Returned("acknowledge", i, "False")
    /\ deqAge' = IF i \in Range(pending)
                   THEN [deqAge EXCEPT ![i] = 0]
                   ELSE deqAge
    /\ UNCHANGED <<nextId, age, queue, pending, lock, cpc, held, rpc, todo,
                   rerr, accepted, requeued>>

\* MessageQueue.acknowledge(message_id), by any thread, under self.lock.
Acknowledge(i) ==
    /\ lock = "free"
    /\ IF i \in Range(pending)
         THEN /\ pending' = Pop(pending, i)
              /\ acknowledged' = [acknowledged EXCEPT ![i] = TRUE]
              /\ last' = Returned("acknowledge", i, "True")
         ELSE /\ UNCHANGED <<pending, acknowledged>>
              /\ last' = Returned("acknowledge", i, "False")
    /\ deqAge' = IF i \in Range(pending)
                   THEN [deqAge EXCEPT ![i] = 0]
                   ELSE deqAge
    /\ UNCHANGED <<nextId, age, queue, lock, cpc, held, rpc, todo, rerr,
                   accepted, requeued>>

\* _cleanup_task wakes from time.sleep(cleanup_interval) and
\* requeue_unacknowledged takes self.lock, reads the clock and copies the
\* items of pending_ack; only the entries that pass line 62 are kept.
ReaperScan ==
    /\ rpc = "sleep"
    /\ lock = "free"
    /\ lock' = "reaper"
    /\ rpc' = "scan"
    /\ todo' = SelectSeq(pending, Expired)
    /\ last' = NoReturn
    /\ UNCHANGED <<nextId, age, acknowledged, queue, pending, cpc, held,
                   rerr, accepted, requeued, deqAge>>

\* Mutant of ReaperRequeue: the entry is requeued but stays in pending_ack.
ReaperRequeue_NoPop ==
    /\ rpc = "scan"
    /\ todo # <<>>
    /\ IF Full(queue)
         THEN /\ rpc' = "dead"
              /\ lock' = "free"
              /\ todo' = <<>>
              /\ rerr' = Head(todo)
              /\ UNCHANGED <<queue, requeued>>
         ELSE /\ queue' = Append(queue, Head(todo))
              /\ requeued' = requeued \cup {Head(todo)}
              /\ todo' = Tail(todo)
              /\ UNCHANGED <<rpc, lock, rerr>>
    /\ last' = NoReturn
    /\ deqAge' = [deqAge EXCEPT ![Head(todo)] = 0]
    /\ UNCHANGED <<nextId, age, acknowledged, pending, cpc, held, accepted>>

\* The manual-release variant of the requeue loop: acquire before, release
\* after, and nothing releases the lock when put_nowait raises.
ReaperRequeue_NoRelease ==
    /\ rpc = "scan"
    /\ todo # <<>>
    /\ pending' = Pop(pending, Head(todo))
    /\ IF Full(queue)
         THEN /\ rpc' = "dead"
              /\ todo' = <<>>
              /\ rerr' = Head(todo)
              /\ UNCHANGED <<queue, requeued, lock>>
         ELSE /\ queue' = Append(queue, Head(todo))
              /\ requeued' = requeued \cup {Head(todo)}
              /\ todo' = Tail(todo)
              /\ UNCHANGED <<rpc, lock, rerr>>
    /\ last' = NoReturn
    /\ deqAge' = [deqAge EXCEPT ![Head(todo)] = 0]
    /\ UNCHANGED <<nextId, age, acknowledged, cpc, held, accepted>>

\* One iteration of the loop, lines 63-64: pop, then put_nowait. queue.Full
\* leaves the with block (releasing the lock), requeue_unacknowledged and
\* _cleanup_task: the thread ends.
ReaperRequeue ==
    /\ rpc = "scan"
    /\ todo # <<>>
    /\ pending' = Pop(pending, Head(todo))
    /\ IF Full(queue)
         THEN /\ rpc' = "dead"
              /\ lock' = "free"
              /\ todo' = <<>>
              /\ rerr' = Head(todo)
              /\ UNCHANGED <<queue, requeued>>
         ELSE /\ queue' = Append(queue, Head(todo))
              /\ requeued' = requeued \cup {Head(todo)}
              /\ todo' = Tail(todo)
              /\ UNCHANGED <<rpc, lock, rerr>>
    /\ last' = NoReturn
    /\ deqAge' = [deqAge EXCEPT ![Head(todo)] = 0]
    /\ UNCHANGED <<nextId, age, acknowledged, cpc, held, accepted>>

\* The scan is over: the lock is released and the thread sleeps again.
ReaperDone ==
    /\ rpc = "scan"
    /\ todo = <<>>
    /\ lock' = "free"
    /\ rpc' = "sleep"
    /\ last' = NoReturn
    /\ UNCHANGED <<nextId, age, acknowledged, queue, pending, cpc, held, todo,
                   rerr, accepted, requeued, deqAge>>

\* MessageQueue.get_queue_size, line 73: self.queue.qsize(), under the mutex
\* of queue.Queue only. The number is carried in the id field of last.
Get_Queue_Size ==
    /\ last' = Returned("get_queue_size", Len(queue), "int")
    /\ UNCHANGED <<nextId, age, acknowledged, queue, pending, lock, cpc, held,
                   rpc, todo, rerr, accepted, requeued, deqAge>>

\* MessageQueue.get_pending_ack_size, lines 76-77: len(self.pending_ack)
\* under self.lock.
Get_Pending_Ack_Size ==
    /\ lock = "free"
    /\ last' = Returned("get_pending_ack_size", Len(pending), "int")
    /\ UNCHANGED <<nextId, age, acknowledged, queue, pending, lock, cpc, held,
                   rpc, todo, rerr, accepted, requeued, deqAge>>

\* ack_timeout seconds pass.
Tick ==
    /\ age' = [i \in Ids |-> IF i < nextId
                               THEN Min(age[i] + ack_timeout, AgeCap)
                               ELSE age[i]]
    /\ deqAge' = [i \in Ids |-> IF \/ i \in Range(pending)
                                     \/ \E c \in Consumers : held[c] = i
                                  THEN Min(deqAge[i] + ack_timeout, AgeCap)
                                  ELSE deqAge[i]]
    /\ last' = NoReturn
    /\ UNCHANGED <<nextId, acknowledged, queue, pending, lock, cpc, held, rpc,
                   todo, rerr, accepted, requeued>>

\* A step of the MessageQueue object alone.
QueueOnly == UNCHANGED <<taskVars, pqVars, consVars, cmVars, epVars, smVars>>

Next ==
    \/ Enqueue /\ QueueOnly
    \/ \E c \in Consumers : Get(c) /\ QueueOnly
    \/ \E c \in Consumers : Insert(c) /\ QueueOnly
    \/ \E c \in Consumers : GetEmpty(c) /\ QueueOnly
    \/ \E i \in Ids : Acknowledge(i) /\ QueueOnly
    \/ ReaperScan /\ QueueOnly
    \/ ReaperRequeue /\ QueueOnly
    \/ ReaperDone /\ QueueOnly
    \/ Tick /\ QueueOnly

Spec == Init /\ [][Next]_vars

\* The same threads, with callers of the two size accessors among them.
LockNext ==
    \/ Next
    \/ Get_Queue_Size /\ QueueOnly
    \/ Get_Pending_Ack_Size /\ QueueOnly

LockSpec == Init /\ [][LockNext]_vars

\* Consumers keep calling dequeue, the cleanup thread keeps running and time
\* passes; producers and acknowledgers may stop. A consumer waiting for
\* self.lock gets it: the cleanup thread releases it after every scan.
FairSpec ==
    /\ Spec
    /\ WF_vars(Tick)
    /\ WF_vars(ReaperScan)
    /\ WF_vars(ReaperRequeue)
    /\ WF_vars(ReaperDone)
    /\ \A c \in Consumers : WF_vars(Get(c)) /\ SF_vars(Insert(c))

----------------------------------------------------------------------------
\* publisher_task and subscriber_task: the publishers send Batch messages
\* between them, which the queue has room for; every subscriber receives,
\* processes and acknowledges, one message at a time.

Batch == Min(MaxSize, MaxMsgs)

\* A step of the tasks and the queue.
TaskOnly == UNCHANGED <<pqVars, consVars, cmVars, epVars, smVars>>

\* MessageQueue.enqueue, line 28, called by Publisher.publish: the Message is
\* created (uuid4 id, timestamp).
Publish_Create(p) ==
    /\ made[p] = NoId
    /\ nextId <= Batch
    /\ made' = [made EXCEPT ![p] = nextId]
    /\ nextId' = nextId + 1
    /\ age' = [age EXCEPT ![nextId] = 0]
    /\ last' = NoReturn
    /\ UNCHANGED <<acknowledged, queue, pending, lock, cpc, held, rpc, todo,
                   rerr, accepted, requeued, deqAge, proc>>

\* MessageQueue.enqueue, lines 29-34: put_nowait and return.
Publish_Put(p) ==
    /\ made[p] # NoId
    /\ IF Full(queue)
         THEN UNCHANGED <<queue, accepted>>
         ELSE /\ queue' = Append(queue, made[p])
              /\ accepted' = accepted \cup {made[p]}
    /\ last' = Returned("enqueue", made[p], "Message")
    /\ made' = [made EXCEPT ![p] = NoId]
    /\ UNCHANGED <<nextId, age, acknowledged, pending, lock, cpc, held, rpc,
                   todo, rerr, requeued, deqAge, proc>>

\* Mutant of Receive_Get: queue.get hands out the head and leaves it queued.
Receive_Get_Peek(c) ==
    /\ proc[c] = NoId
    /\ cpc[c] = "idle"
    /\ queue # <<>>
    /\ held' = [held EXCEPT ![c] = Head(queue)]
    /\ cpc' = [cpc EXCEPT ![c] = "got"]
    /\ last' = NoReturn
    /\ UNCHANGED <<nextId, age, acknowledged, queue, pending, lock, rpc, todo,
                   rerr, accepted, requeued, deqAge, taskVars>>

\* Subscriber.receive_message: dequeue, queue.get with a message there.
Receive_Get(c) ==
    /\ proc[c] = NoId
    /\ Get(c)
    /\ UNCHANGED taskVars

\* Subscriber.receive_message: dequeue returns the message, which
\* subscriber_task keeps while it processes it.
Receive_Insert(c) ==
    /\ Insert(c)
    /\ proc' = [proc EXCEPT ![c] = held[c]]
    /\ UNCHANGED made

\* Subscriber.receive_message: dequeue returned None, the loop goes on.
Receive_Empty(c) ==
    /\ proc[c] = NoId
    /\ GetEmpty(c)
    /\ UNCHANGED taskVars

\* subscriber_task, lines 114-116: after the processing,
\* subscriber.acknowledge_message(message.id).
Acknowledge_Message(c) ==
    /\ proc[c] # NoId
    /\ Acknowledge(proc[c])
    /\ proc' = [proc EXCEPT ![c] = NoId]
    /\ UNCHANGED made

TaskNext ==
    \/ \E p \in Producers : Publish_Create(p) /\ TaskOnly
    \/ \E p \in Producers : Publish_Put(p) /\ TaskOnly
    \/ \E c \in Consumers : Receive_Get(c) /\ TaskOnly
    \/ \E c \in Consumers : Receive_Insert(c) /\ TaskOnly
    \/ \E c \in Consumers : Receive_Empty(c) /\ TaskOnly
    \/ \E c \in Consumers : Acknowledge_Message(c) /\ TaskOnly
    \/ ReaperScan /\ UNCHANGED taskVars /\ TaskOnly
    \/ ReaperRequeue /\ UNCHANGED taskVars /\ TaskOnly
    \/ ReaperDone /\ UNCHANGED taskVars /\ TaskOnly
    \/ Tick /\ UNCHANGED taskVars /\ TaskOnly

\* The tasks run to their end: publishers finish their calls, subscribers keep
\* receiving and acknowledge what they received, and the cleanup thread gives
\* self.lock back after every scan. Time may or may not pass.
TaskSpec ==
    /\ Init
    /\ [][TaskNext]_<<vars, taskVars>>
    /\ \A p \in Producers :
          WF_<<vars, taskVars>>(Publish_Create(p))
             /\ WF_<<vars, taskVars>>(Publish_Put(p))
    /\ \A c \in Consumers :
          /\ WF_<<vars, taskVars>>(Receive_Get(c))
          /\ SF_<<vars, taskVars>>(Receive_Insert(c))
          /\ SF_<<vars, taskVars>>(Acknowledge_Message(c))
    /\ WF_<<vars, taskVars>>(ReaperRequeue /\ UNCHANGED taskVars)
    /\ WF_<<vars, taskVars>>(ReaperDone /\ UNCHANGED taskVars)

----------------------------------------------------------------------------
\* broker/queue/PriorityQueue.py: a heapq list guarded by self.lock. The
\* threads of Producers call enqueue, whose body under the lock is two
\* statements; dequeue, peek, size and clear are one step each under the lock;
\* is_empty takes no lock.

\* Enqueue calls between two clears.
MaxSeq == 3

\* Order of the message objects, which tuple comparison reaches only when
\* priority and counter are both equal.
Rank(m) == IF m = "a" THEN 1 ELSE IF m = "b" THEN 2 ELSE 3

\* (priority, counter, message) < (priority, counter, message) of Python
Less(x, y) ==
    \/ x[1] < y[1]
    \/ x[1] = y[1] /\ x[2] < y[2]
    \/ x[1] = y[1] /\ x[2] = y[2] /\ Rank(x[3]) < Rank(y[3])

\* heapq._siftdown: newitem moves up from pos while it is less than its parent
\* (positions count from 1 here, the parent of pos is pos \div 2).
RECURSIVE SiftDown(_, _, _, _)
SiftDown(h, startpos, pos, newitem) ==
    IF pos > startpos /\ Less(newitem, h[pos \div 2])
      THEN SiftDown([h EXCEPT ![pos] = h[pos \div 2]], startpos, pos \div 2,
                    newitem)
      ELSE [h EXCEPT ![pos] = newitem]

\* heapq.heappush: append, then _siftdown(heap, 0, len(heap) - 1)
HeapPush(h, item) == SiftDown(Append(h, item), 1, Len(h) + 1, item)

\* The loop of heapq._siftup: the smaller child moves up into pos until pos is
\* a leaf; the place of the hole is returned with the list.
RECURSIVE Bubble(_, _)
Bubble(h, pos) ==
    LET childpos == 2 * pos
        rightpos == childpos + 1
        smaller == IF rightpos <= Len(h) /\ ~Less(h[childpos], h[rightpos])
                     THEN rightpos
                     ELSE childpos
    IN  IF childpos > Len(h)
          THEN [h |-> h, pos |-> pos]
          ELSE Bubble([h EXCEPT ![pos] = h[smaller]], smaller)

\* heapq._siftup: the hole goes down to a leaf, newitem is put there and
\* sifted down (towards the root) again.
SiftUp(h, pos) ==
    LET leaf == Bubble(h, pos)
    IN  SiftDown(leaf.h, pos, leaf.pos, h[pos])

\* heapq.heappop on a non-empty list: the item returned and the list left.
HeapPop(h) ==
    LET lastelt == h[Len(h)]
        rest == SubSeq(h, 1, Len(h) - 1)
    IN  IF rest # <<>>
          THEN [item |-> rest[1], h |-> SiftUp([rest EXCEPT ![1] = lastelt], 1)]
          ELSE [item |-> lastelt, h |-> rest]

\* A step of the PriorityQueue object alone.
PQOnly == UNCHANGED <<vars, taskVars, consVars, cmVars, epVars, smVars>>

\* Mutant of PQ_Enqueue_Acquire: the body of enqueue runs without self.lock.
PQ_Enqueue_NoLock(p, priority, message) ==
    /\ ppc[p] = "idle"
    /\ Len(grants) < MaxSeq
    /\ ppc' = [ppc EXCEPT ![p] = "locked"]
    /\ parg' = [parg EXCEPT ![p] = <<priority, message>>]
    /\ grants' = Append(grants, <<priority, message>>)
    /\ pret' = PNoReturn
    /\ UNCHANGED <<heap, counter, pqLock, issued, prevHolder, epochSeqs, taken>>

\* PriorityQueue.enqueue(priority, message), line 16: with self.lock.
PQ_Enqueue_Acquire(p, priority, message) ==
    /\ ppc[p] = "idle"
    /\ Len(grants) < MaxSeq
    /\ pqLock = "free"
    /\ pqLock' = p
    /\ ppc' = [ppc EXCEPT ![p] = "locked"]
    /\ parg' = [parg EXCEPT ![p] = <<priority, message>>]
    /\ grants' = Append(grants, <<priority, message>>)
    /\ pret' = PNoReturn
    /\ UNCHANGED <<heap, counter, issued, prevHolder, epochSeqs, taken>>

\* line 18: heapq.heappush(self.queue, (priority, self.counter, message))
PQ_Enqueue_Push(p) ==
    /\ ppc[p] = "locked"
    /\ heap' = HeapPush(heap, <<parg[p][1], counter, parg[p][2]>>)
    /\ issued' = issued \cup {counter}
    /\ epochSeqs' = Append(epochSeqs, counter)
    /\ ppc' = [ppc EXCEPT ![p] = "pushed"]
    /\ pret' = PNoReturn
    /\ UNCHANGED <<counter, pqLock, parg, grants, prevHolder, taken>>

\* Mutant of PQ_Enqueue_Release: the counter is not incremented.
PQ_Enqueue_Release_NoIncr(p) ==
    /\ ppc[p] = "pushed"
    /\ pqLock' = "free"
    /\ ppc' = [ppc EXCEPT ![p] = "idle"]
    /\ parg' = [parg EXCEPT ![p] = NoArg]
    /\ pret' = PReturned("enqueue", FALSE, counter, "None", 0)
    /\ prevHolder' = p
    /\ UNCHANGED <<heap, counter, issued, grants, epochSeqs, taken>>

\* line 19: self.counter += 1, and the lock is released on leaving the block.
PQ_Enqueue_Release(p) ==
    /\ ppc[p] = "pushed"
    /\ counter' = counter + 1
    /\ pqLock' = "free"
    /\ ppc' = [ppc EXCEPT ![p] = "idle"]
    /\ parg' = [parg EXCEPT ![p] = NoArg]
    /\ pret' = PReturned("enqueue", FALSE, counter, "None", 0)
    /\ prevHolder' = p
    /\ UNCHANGED <<heap, issued, grants, epochSeqs, taken>>

\* Mutant of PQ_Dequeue: self.queue.pop() is used for heapq.heappop.
PQ_Dequeue_PopLast ==
    /\ pqLock = "free"
    /\ IF Len(heap) = 0
         THEN /\ pret' = PReturned("dequeue", TRUE, 0, "None", 0)
              /\ UNCHANGED <<heap, taken>>
         ELSE /\ heap' = SubSeq(heap, 1, Len(heap) - 1)
              /\ pret' = PReturned("dequeue", FALSE, heap[Len(heap)][2],
                                   heap[Len(heap)][3], 0)
              /\ taken' = Append(taken, <<heap[Len(heap)][2],
                                          heap[Len(heap)][3]>>)
    /\ UNCHANGED <<counter, pqLock, ppc, parg, issued, grants, prevHolder,
                   epochSeqs>>

\* Mutant of PQ_Dequeue: None comes back from an empty queue.
PQ_Dequeue_NoRaise ==
    /\ pqLock = "free"
    /\ IF Len(heap) = 0
         THEN /\ pret' = PReturned("dequeue", FALSE, 0, "None", 0)
              /\ UNCHANGED <<heap, taken>>
         ELSE LET popped == HeapPop(heap)
              IN  /\ heap' = popped.h
                  /\ pret' = PReturned("dequeue", FALSE, popped.item[2],
                                       popped.item[3], 0)
                  /\ taken' = Append(taken, <<popped.item[2], popped.item[3]>>)
    /\ UNCHANGED <<counter, pqLock, ppc, parg, issued, grants, prevHolder,
                   epochSeqs>>

\* PriorityQueue.dequeue: IndexError on an empty list, else
\* heapq.heappop(self.queue)[1:].
PQ_Dequeue ==
    /\ pqLock = "free"
    /\ IF Len(heap) = 0
         THEN /\ pret' = PReturned("dequeue", TRUE, 0, "None", 0)
              /\ UNCHANGED <<heap, taken>>
         ELSE LET popped == HeapPop(heap)
              IN  /\ heap' = popped.h
                  /\ pret' = PReturned("dequeue", FALSE, popped.item[2],
                                       popped.item[3], 0)
                  /\ taken' = Append(taken, <<popped.item[2], popped.item[3]>>)
    /\ UNCHANGED <<counter, pqLock, ppc, parg, issued, grants, prevHolder,
                   epochSeqs>>

\* Mutant of PQ_Peek: the last element of the list is read.
PQ_Peek_Last ==
    /\ pqLock = "free"
    /\ pret' = IF Len(heap) = 0
                 THEN PReturned("peek", FALSE, 0, "None", 0)
                 ELSE PReturned("peek", FALSE, 0, heap[Len(heap)][3], 0)
    /\ UNCHANGED <<heap, counter, pqLock, ppc, parg, issued, grants,
                   prevHolder, epochSeqs, taken>>

\* PriorityQueue.peek: None on an empty list, else self.queue[0][2].
PQ_Peek ==
    /\ pqLock = "free"
    /\ pret' = IF Len(heap) = 0
                 THEN PReturned("peek", FALSE, 0, "None", 0)
                 ELSE PReturned("peek", FALSE, 0, heap[1][3], 0)
    /\ UNCHANGED <<heap, counter, pqLock, ppc, parg, issued, grants,
                   prevHolder, epochSeqs, taken>>

\* PriorityQueue.size: len(self.queue) under the lock.
PQ_Size ==
    /\ pqLock = "free"
    /\ pret' = PReturned("size", FALSE, 0, "None", Len(heap))
    /\ UNCHANGED <<heap, counter, pqLock, ppc, parg, issued, grants,
                   prevHolder, epochSeqs, taken>>

\* PriorityQueue.is_empty: len(self.queue) == 0, no lock taken (n is 1 for
\* True).
PQ_IsEmpty ==
    /\ pret' = PReturned("is_empty", FALSE, 0, "None",
                         IF Len(heap) = 0 THEN 1 ELSE 0)
    /\ UNCHANGED <<heap, counter, pqLock, ppc, parg, issued, grants,
                   prevHolder, epochSeqs, taken>>

\* Mutant of PQ_Clear: the list is emptied and the counter keeps its value.
PQ_Clear_KeepCounter ==
    /\ pqLock = "free"
    /\ heap' = <<>>
    /\ grants' = <<>>
    /\ epochSeqs' = <<>>
    /\ taken' = <<>>
    /\ pret' = PReturned("clear", FALSE, 0, "None", 0)
    /\ UNCHANGED <<counter, pqLock, ppc, parg, issued, prevHolder>>

\* A clear that resets the counter and leaves the list as it is.
PQ_Clear_KeepHeap ==
    /\ pqLock = "free"
    /\ counter' = 0
    /\ grants' = <<>>
    /\ epochSeqs' = <<>>
    /\ taken' = <<>>
    /\ pret' = PReturned("clear", FALSE, 0, "None", 0)
    /\ UNCHANGED <<heap, pqLock, ppc, parg, issued, prevHolder>>

\* PriorityQueue.clear: self.queue.clear(), self.counter = 0.
PQ_Clear ==
    /\ pqLock = "free"
    /\ heap' = <<>>
    /\ counter' = 0
    /\ grants' = <<>>
    /\ epochSeqs' = <<>>
    /\ taken' = <<>>
    /\ pret' = PReturned("clear", FALSE, 0, "None", 0)
    /\ UNCHANGED <<pqLock, ppc, parg, issued, prevHolder>>

PQNext ==
    \/ \E p \in Producers, priority \in Priorities, message \in Messages :
          PQ_Enqueue_Acquire(p, priority, message) /\ PQOnly
    \/ \E p \in Producers : PQ_Enqueue_Push(p) /\ PQOnly
    \/ \E p \in Producers : PQ_Enqueue_Release(p) /\ PQOnly
    \/ PQ_Dequeue /\ PQOnly
    \/ PQ_Peek /\ PQOnly
    \/ PQ_Size /\ PQOnly
    \/ PQ_IsEmpty /\ PQOnly
    \/ PQ_Clear /\ PQOnly

PQSpec == Init /\ [][PQNext]_pqVars

\* A step of a consumer() thread on the priority queue.
ConsumerOnly == UNCHANGED <<vars, taskVars, cmVars, epVars, smVars>>

\* consumer, line 100: if not queue.is_empty(). is_empty takes no lock. When
\* the list is empty the thread sleeps and tests again.
Consumer_Check(k) ==
    /\ kpc[k] = "idle"
    /\ PQ_IsEmpty
    /\ kpc' = [kpc EXCEPT ![k] = IF Len(heap) = 0 THEN "idle" ELSE "checked"]

\* consumer, line 101: queue.dequeue_message(), which is self.dequeue()[1].
\* The IndexError of dequeue is caught nowhere and ends the thread.
Consumer_Dequeue(k) ==
    /\ kpc[k] = "checked"
    /\ PQ_Dequeue
    /\ kpc' = [kpc EXCEPT ![k] = IF pret'.raised THEN "dead" ELSE "idle"]

\* Producers, the threads running consumer(), and a caller of clear.
ConsumerNext ==
    \/ \E p \in Producers, priority \in Priorities, message \in Messages :
          PQ_Enqueue_Acquire(p, priority, message) /\ PQOnly
    \/ \E p \in Producers : PQ_Enqueue_Push(p) /\ PQOnly
    \/ \E p \in Producers : PQ_Enqueue_Release(p) /\ PQOnly
    \/ \E k \in Consumers : Consumer_Check(k) /\ ConsumerOnly
    \/ \E k \in Consumers : Consumer_Dequeue(k) /\ ConsumerOnly
    \/ PQ_Clear /\ PQOnly

ConsumerSpec == Init /\ [][ConsumerNext]_<<pqVars, consVars>>

----------------------------------------------------------------------------
\* api/websocket_gateway/ConnectionManager.py: the room registry (two
\* defaultdict(list)), broadcast, and the HTTP endpoints that manage rooms.
\* Everything runs on one asyncio event loop: a coroutine is interrupted only
\* at an await, so connect (after its accept), disconnect, subscribe and
\* unsubscribe are one step each, while broadcast and disconnect_all_from_room
\* take one step per element of the list they walk and other coroutines run
\* in between.

\* Longest list kept in active_connections[room] and in user_rooms[user].
MaxRegs == 2

\* list.remove(x): the first occurrence goes.
RECURSIVE RemoveFirst(_, _)
RemoveFirst(s, x) ==
    IF s = <<>> THEN s
    ELSE IF Head(s) = x THEN Tail(s)
    ELSE <<Head(s)>> \o RemoveFirst(Tail(s), x)

\* The list object walker w iterates: the list of the room while the dict
\* still holds it, else the object as it was when the dict let go of it.
CurList(w) == IF ilive[w] THEN active_connections[iroom[w]] ELSE idet[w]

\* The list iterator of w has a next element.
HasNext(w) == iidx[w] < Len(CurList(w))

Cur(w) == CurList(w)[iidx[w] + 1]

\* The key room leaves active_connections (del, or pop) with list lst: the
\* walkers that hold that list object keep it.
Detach(room, lst) ==
    /\ ilive' = [w \in Walkers |->
                    ilive[w] /\ ipc'[w] = "running" /\ iroom[w] # room]
    /\ idet' = [w \in Walkers |->
                    IF ipc'[w] # "running" THEN <<>>
                    ELSE IF ilive[w] /\ iroom[w] = room THEN lst
                    ELSE idet[w]]

\* Walker w is over: its local variables are gone.
Finish(w) ==
    /\ ipc' = [ipc EXCEPT ![w] = "idle"]
    /\ iroom' = [iroom EXCEPT ![w] = "r1"]
    /\ iidx' = [iidx EXCEPT ![w] = 0]

\* A step of the connection manager alone.
CMOnly == UNCHANGED <<vars, taskVars, pqVars, consVars, epVars, smVars>>

\* Number of times x is in the list s.
Count(s, x) == Cardinality({i \in 1..Len(s) : s[i] = x})

\* The step enters broadcast().
Starts == ipc["broadcast"] = "idle" /\ ipc'["broadcast"] = "running"

\* History of a broadcast: set to fresh when it starts, to during while it
\* runs (the step of its return included), forgotten by the next step.
Hist(fresh, during, none) ==
    IF Starts THEN fresh
    ELSE IF ipc["broadcast"] = "running" THEN during
    ELSE none

\* Observer of a step of the connection manager: did the list of the room
\* change under a running broadcast.
Track ==
    LET room == iroom["broadcast"]
    IN  changed' = Hist(FALSE,
                        changed \/ active_connections'[room]
                                      # active_connections[room],
                        FALSE)

\* Observer: the list the broadcast started with, and who left it since.
TrackList ==
    LET room == iroom["broadcast"]
        leavers == {h \in Handles :
                       Count(active_connections'[room], h)
                          < Count(active_connections[room], h)}
    IN  /\ snapshot' = Hist(active_connections[iroom'["broadcast"]],
                            snapshot, <<>>)
        /\ parted' = Hist({}, parted \cup leavers, {})

\* A step of the connection manager with no broadcast to observe.
Unwatched == CMOnly /\ UNCHANGED <<changed, snapshot, parted>>

\* A step of the connection manager, a broadcast observed for changes.
Watched == CMOnly /\ Track /\ UNCHANGED <<snapshot, parted>>

\* A step of the connection manager, a broadcast observed in full.
Recorded == CMOnly /\ Track /\ TrackList

\* A connect that registers a handle in a room at most once.
CM_Connect_Dedup(h, room) ==
    /\ ~closed[h]
    /\ Len(active_connections[room]) < MaxRegs
    /\ Len(user_rooms[Owner(h)]) < MaxRegs
    /\ active_connections' =
          [active_connections EXCEPT
              ![room] = IF h \in Range(@) THEN @ ELSE Append(@, h)]
    /\ roomKeys' = roomKeys \cup {room}
    /\ user_rooms' = [user_rooms EXCEPT ![Owner(h)] = Append(@, room)]
    /\ userKeys' = userKeys \cup {Owner(h)}
    /\ cret' = CReturned("connect", FALSE)
    /\ UNCHANGED <<closed, ipc, iroom, iidx, ilive, idet, attempted>>

\* ConnectionManager.connect(websocket, room, user_id): accept, then both
\* appends with no await between them.
CM_Connect(h, room) ==
    /\ ~closed[h]
    /\ Len(active_connections[room]) < MaxRegs
    /\ Len(user_rooms[Owner(h)]) < MaxRegs
    /\ active_connections' =
          [active_connections EXCEPT ![room] = Append(@, h)]
    /\ roomKeys' = roomKeys \cup {room}
    /\ user_rooms' = [user_rooms EXCEPT ![Owner(h)] = Append(@, room)]
    /\ userKeys' = userKeys \cup {Owner(h)}
    /\ cret' = CReturned("connect", FALSE)
    /\ UNCHANGED <<closed, ipc, iroom, iidx, ilive, idet, attempted>>

\* ConnectionManager.disconnect(websocket, room, user_id). Line 23 indexes the
\* defaultdict, which creates the key; line 27 is list.remove, which raises
\* ValueError when room is not in the user's list.
CM_Disconnect(h, room) ==
    LET user == Owner(h)
        registered == h \in Range(active_connections[room])
        left == RemoveFirst(active_connections[room], h)
    IN  /\ UNCHANGED <<closed, ipc, iroom, iidx, attempted>>
        /\ IF registered
             THEN /\ active_connections' =
                        [active_connections EXCEPT ![room] = left]
                  /\ IF left = <<>>
                       THEN /\ roomKeys' = roomKeys \ {room}
                            /\ Detach(room, left)
                       ELSE /\ roomKeys' = roomKeys \cup {room}
                            /\ UNCHANGED <<ilive, idet>>
             ELSE /\ roomKeys' = roomKeys \cup {room}
                  /\ UNCHANGED <<active_connections, ilive, idet>>
        /\ userKeys' = userKeys \cup {user}
        /\ IF room \in Range(user_rooms[user])
             THEN /\ user_rooms' =
                        [user_rooms EXCEPT ![user] = RemoveFirst(@, room)]
                  /\ cret' = CReturned("disconnect", FALSE)
             ELSE /\ UNCHANGED user_rooms
                  /\ cret' = CReturned("disconnect", TRUE)

\* POST /subscribe/{room}/{user_id}
Subscribe(room, user) ==
    /\ IF room \in Range(user_rooms[user])
         THEN UNCHANGED <<user_rooms, userKeys>>
         ELSE /\ Len(user_rooms[user]) < MaxRegs
              /\ user_rooms' = [user_rooms EXCEPT ![user] = Append(@, room)]
              /\ userKeys' = userKeys \cup {user}
    /\ cret' = CReturned("subscribe", FALSE)
    /\ UNCHANGED <<active_connections, roomKeys, closed, ipc, iroom, iidx,
                   ilive, idet, attempted>>

\* POST /unsubscribe/{room}/{user_id}
Unsubscribe(room, user) ==
    /\ user_rooms' = [user_rooms EXCEPT ![user] = RemoveFirst(@, room)]
    /\ cret' = CReturned("unsubscribe", FALSE)
    /\ UNCHANGED <<active_connections, roomKeys, userKeys, closed, ipc, iroom,
                   iidx, ilive, idet, attempted>>

\* An accessor that indexes the defaultdict instead of calling get.
Get_Rooms_For_User_Index(user_id) ==
    /\ cret' = CQueried("get_rooms_for_user", user_id, user_rooms[user_id])
    /\ userKeys' = userKeys \cup {user_id}
    /\ UNCHANGED <<active_connections, user_rooms, roomKeys, closed, ipc,
                   iroom, iidx, ilive, idet, attempted>>

\* get_rooms_for_user, line 40: self.user_rooms.get(user_id, []).
Get_Rooms_For_User(user_id) ==
    /\ cret' = CQueried("get_rooms_for_user", user_id,
                        IF user_id \in userKeys THEN user_rooms[user_id]
                                                ELSE <<>>)
    /\ UNCHANGED <<active_connections, user_rooms, roomKeys, userKeys, closed,
                   ipc, iroom, iidx, ilive, idet, attempted>>

\* get_connections_for_room, line 43: self.active_connections.get(room, []).
Get_Connections_For_Room(room) ==
    /\ cret' = CQueried("get_connections_for_room", room,
                        IF room \in roomKeys THEN active_connections[room]
                                             ELSE <<>>)
    /\ UNCHANGED <<active_connections, user_rooms, roomKeys, userKeys, closed,
                   ipc, iroom, iidx, ilive, idet, attempted>>

\* Lines 32 and 131: self.active_connections.get(room, []) and the start of
\* the for loop: the list of the room itself, or a new empty list.
Walk_Start(w, room) ==
    /\ ipc[w] = "idle"
    /\ ipc' = [ipc EXCEPT ![w] = "running"]
    /\ iroom' = [iroom EXCEPT ![w] = room]
    /\ iidx' = [iidx EXCEPT ![w] = 0]
    /\ ilive' = [ilive EXCEPT ![w] = room \in roomKeys]
    /\ idet' = [idet EXCEPT ![w] = <<>>]
    /\ attempted' = IF w = "broadcast" THEN <<>> ELSE attempted
    /\ cret' = CNoReturn
    /\ UNCHANGED <<active_connections, user_rooms, roomKeys, userKeys, closed>>

\* A broadcast that sends to every other connection of the list.
Broadcast_Send_Skip ==
    /\ ipc["broadcast"] = "running"
    /\ HasNext("broadcast")
    /\ attempted' = Append(attempted, Cur("broadcast"))
    /\ IF closed[Cur("broadcast")]
         THEN /\ Finish("broadcast")
              /\ ilive' = [ilive EXCEPT !["broadcast"] = FALSE]
              /\ idet' = [idet EXCEPT !["broadcast"] = <<>>]
              /\ cret' = CReturned("broadcast", TRUE)
         ELSE /\ iidx' = [iidx EXCEPT !["broadcast"] = @ + 2]
              /\ cret' = CNoReturn
              /\ UNCHANGED <<ipc, iroom, ilive, idet>>
    /\ UNCHANGED <<active_connections, user_rooms, roomKeys, userKeys, closed>>

\* ConnectionManager.broadcast, line 34: await connection.send_text(message).
\* On a closed connection send_text raises, and nothing in broadcast catches
\* it.
Broadcast_Send ==
    /\ ipc["broadcast"] = "running"
    /\ HasNext("broadcast")
    /\ attempted' = Append(attempted, Cur("broadcast"))
    /\ IF closed[Cur("broadcast")]
         THEN /\ Finish("broadcast")
              /\ ilive' = [ilive EXCEPT !["broadcast"] = FALSE]
              /\ idet' = [idet EXCEPT !["broadcast"] = <<>>]
              /\ cret' = CReturned("broadcast", TRUE)
         ELSE /\ iidx' = [iidx EXCEPT !["broadcast"] = @ + 1]
              /\ cret' = CNoReturn
              /\ UNCHANGED <<ipc, iroom, ilive, idet>>
    /\ UNCHANGED <<active_connections, user_rooms, roomKeys, userKeys, closed>>

\* ConnectionManager.broadcast: the list is exhausted, the call returns.
Broadcast_Return ==
    /\ ipc["broadcast"] = "running"
    /\ ~HasNext("broadcast")
    /\ Finish("broadcast")
    /\ ilive' = [ilive EXCEPT !["broadcast"] = FALSE]
    /\ idet' = [idet EXCEPT !["broadcast"] = <<>>]
    /\ cret' = CReturned("broadcast", FALSE)
    /\ UNCHANGED <<active_connections, user_rooms, roomKeys, userKeys, closed,
                   attempted>>

\* disconnect_all_from_room, line 133: await connection.close(). Closing a
\* connection that is closed already raises or not, as the transport has it.
DisconnectAll_Close(raises) ==
    /\ ipc["disconnect_all"] = "running"
    /\ HasNext("disconnect_all")
    /\ IF closed[Cur("disconnect_all")] /\ raises
         THEN /\ Finish("disconnect_all")
              /\ ilive' = [ilive EXCEPT !["disconnect_all"] = FALSE]
              /\ idet' = [idet EXCEPT !["disconnect_all"] = <<>>]
              /\ cret' = CReturned("disconnect_all", TRUE)
              /\ UNCHANGED closed
         ELSE /\ closed' = [closed EXCEPT ![Cur("disconnect_all")] = TRUE]
              /\ iidx' = [iidx EXCEPT !["disconnect_all"] = @ + 1]
              /\ cret' = CNoReturn
              /\ UNCHANGED <<ipc, iroom, ilive, idet>>
    /\ UNCHANGED <<active_connections, user_rooms, roomKeys, userKeys,
                   attempted>>

\* disconnect_all_from_room, line 134: active_connections.pop(room, None).
DisconnectAll_Pop ==
    LET room == iroom["disconnect_all"]
    IN  /\ ipc["disconnect_all"] = "running"
        /\ ~HasNext("disconnect_all")
        /\ Finish("disconnect_all")
        /\ active_connections' = [active_connections EXCEPT ![room] = <<>>]
        /\ roomKeys' = roomKeys \ {room}
        /\ IF room \in roomKeys
             THEN Detach(room, active_connections[room])
             ELSE /\ ilive' = [ilive EXCEPT !["disconnect_all"] = FALSE]
                  /\ idet' = [idet EXCEPT !["disconnect_all"] = <<>>]
        /\ cret' = CReturned("disconnect_all", FALSE)
        /\ UNCHANGED <<user_rooms, userKeys, closed, attempted>>

\* The client of a connection goes away: its transport is closed.
ClientClose(h) ==
    /\ ~closed[h]
    /\ closed' = [closed EXCEPT ![h] = TRUE]
    /\ cret' = CNoReturn
    /\ UNCHANGED <<active_connections, user_rooms, roomKeys, userKeys, ipc,
                   iroom, iidx, ilive, idet, attempted>>

\* The registry and the endpoints that manage rooms; no broadcast runs.
RegistryNext ==
    \/ \E h \in Handles, room \in Rooms : CM_Connect(h, room) /\ Unwatched
    \/ \E h \in Handles, room \in Rooms : CM_Disconnect(h, room) /\ Unwatched
    \/ \E room \in Rooms, user \in Users : Subscribe(room, user) /\ Unwatched
    \/ \E room \in Rooms, user \in Users : Unsubscribe(room, user) /\ Unwatched
    \/ \E room \in Rooms : Walk_Start("disconnect_all", room) /\ Unwatched
    \/ \E raises \in BOOLEAN : DisconnectAll_Close(raises) /\ Unwatched
    \/ DisconnectAll_Pop /\ Unwatched

RegistrySpec == Init /\ [][RegistryNext]_cmVars

\* The registry as its callers see it: the calls that change it and the
\* query accessors, with no walk of a room going on.
QueryNext ==
    \/ \E h \in Handles, room \in Rooms : CM_Connect(h, room) /\ Unwatched
    \/ \E h \in Handles, room \in Rooms : CM_Disconnect(h, room) /\ Unwatched
    \/ \E room \in Rooms, user \in Users : Subscribe(room, user) /\ Unwatched
    \/ \E room \in Rooms, user \in Users : Unsubscribe(room, user) /\ Unwatched
    \/ \E user \in Users : Get_Rooms_For_User(user) /\ Unwatched
    \/ \E room \in Rooms : Get_Connections_For_Room(room) /\ Unwatched

QuerySpec == Init /\ [][QueryNext]_cmVars

\* A broadcast at a time, with connections coming, going and breaking while
\* it is suspended in a send.
BroadcastNext ==
    \/ \E h \in Handles, room \in Rooms : CM_Connect(h, room) /\ Watched
    \/ \E h \in Handles, room \in Rooms : CM_Disconnect(h, room) /\ Watched
    \/ \E room \in Rooms : Walk_Start("broadcast", room) /\ Watched
    \/ Broadcast_Send /\ Watched
    \/ Broadcast_Return /\ Watched
    \/ \E h \in Handles : ClientClose(h) /\ Watched

BroadcastSpec == Init /\ [][BroadcastNext]_cmVars

\* The same steps, observed with the list each broadcast started from.
SnapshotNext ==
    \/ \E h \in Handles, room \in Rooms : CM_Connect(h, room) /\ Recorded
    \/ \E h \in Handles, room \in Rooms : CM_Disconnect(h, room) /\ Recorded
    \/ \E room \in Rooms : Walk_Start("broadcast", room) /\ Recorded
    \/ Broadcast_Send /\ Recorded
    \/ Broadcast_Return /\ Recorded
    \/ \E h \in Handles : ClientClose(h) /\ Recorded

SnapshotSpec == Init /\ [][SnapshotNext]_cmVars

----------------------------------------------------------------------------
\* websocket_endpoint, lines 52-61: one coroutine per WebSocket. It connects,
\* then receives and broadcasts in a loop; WebSocketDisconnect, and nothing
\* else, takes it to the except block, which disconnects and broadcasts once
\* more. Each handler's broadcast is a walk of its own; a room list that
\* disconnect deletes is empty when it goes (line 25), so a walk of a list
\* no longer in the dict has nothing left to visit.

\* What a send_text on a closed connection raises, as the installed fastapi
\* and server have it: WebSocketDisconnect, or an exception of another class.
SendErrors == {"WebSocketDisconnect", "other"}

\* A step of the handlers and the registry they use.
EndpointOnly ==
    UNCHANGED <<vars, taskVars, pqVars, consVars, smVars,
                changed, snapshot, parted>>

\* The handler of h is inside a broadcast.
Walking(h) == hpc[h] \in {"broadcasting", "leaving"}

\* The list the broadcast of h's handler iterates.
HList(h) == IF hlive[h] THEN active_connections[hroom[h]] ELSE <<>>

\* The walks of the other handlers after a step of h's handler: a walk keeps
\* the list of the dict while the key of its room stays.
OtherWalks(h, mine) ==
    hlive' = [g \in Handles |->
                 IF g = h THEN mine
                 ELSE hlive[g] /\ hroom[g] \in roomKeys']

\* Line 54: await connection_manager.connect(websocket, room, user_id).
H_Connect(h, room) ==
    /\ hpc[h] = "none"
    /\ CM_Connect(h, room)
    /\ hpc' = [hpc EXCEPT ![h] = "receiving"]
    /\ hroom' = [hroom EXCEPT ![h] = room]
    /\ UNCHANGED <<hidx, hlive>>

\* Lines 57-58: receive_text returns data and broadcast starts: line 32.
H_Receive(h) ==
    /\ hpc[h] = "receiving"
    /\ ~closed[h]
    /\ hpc' = [hpc EXCEPT ![h] = "broadcasting"]
    /\ hidx' = [hidx EXCEPT ![h] = 0]
    /\ hlive' = [hlive EXCEPT ![h] = hroom[h] \in roomKeys]
    /\ cret' = CNoReturn
    /\ UNCHANGED <<hroom, active_connections, user_rooms, roomKeys, userKeys,
                   closed, ipc, iroom, iidx, ilive, idet, attempted>>

\* The except block, lines 60-61: disconnect, then the start of the second
\* broadcast, with no await between them. A disconnect that raises ends the
\* handler.
Except(h) ==
    /\ CM_Disconnect(h, hroom[h])
    /\ hpc' = [hpc EXCEPT ![h] = IF cret'.raised THEN "done" ELSE "leaving"]
    /\ hidx' = [hidx EXCEPT ![h] = 0]
    /\ OtherWalks(h, ~cret'.raised /\ hroom[h] \in roomKeys')
    /\ UNCHANGED hroom

\* Line 57: the client is gone and receive_text raises WebSocketDisconnect.
H_Disconnected(h) ==
    /\ hpc[h] = "receiving"
    /\ closed[h]
    /\ Except(h)

\* Line 34 in the handler's broadcast: send_text to an open connection.
H_Send(h) ==
    /\ Walking(h)
    /\ hidx[h] < Len(HList(h))
    /\ ~closed[HList(h)[hidx[h] + 1]]
    /\ hidx' = [hidx EXCEPT ![h] = @ + 1]
    /\ cret' = CNoReturn
    /\ UNCHANGED <<hpc, hroom, hlive, active_connections, user_rooms,
                   roomKeys, userKeys, closed, ipc, iroom, iidx, ilive, idet,
                   attempted>>

\* Line 34: send_text to a closed connection raises err. In the try block
\* (line 58) WebSocketDisconnect goes to the except block; any other
\* exception, and any exception inside the except block (line 61), leaves
\* the handler.
H_Send_Fails(h, err) ==
    /\ Walking(h)
    /\ hidx[h] < Len(HList(h))
    /\ closed[HList(h)[hidx[h] + 1]]
    /\ IF hpc[h] = "broadcasting" /\ err = "WebSocketDisconnect"
         THEN Except(h)
         ELSE /\ hpc' = [hpc EXCEPT ![h] = "done"]
              /\ hidx' = [hidx EXCEPT ![h] = 0]
              /\ hlive' = [hlive EXCEPT ![h] = FALSE]
              /\ cret' = CReturned("broadcast", TRUE)
              /\ UNCHANGED <<hroom, active_connections, user_rooms, roomKeys,
                             userKeys, closed, ipc, iroom, iidx, ilive, idet,
                             attempted>>

\* The handler's broadcast returns: back to receive_text (line 57), or, from
\* the except block, out of the handler.
H_Broadcast_Return(h) ==
    /\ Walking(h)
    /\ hidx[h] >= Len(HList(h))
    /\ hpc' = [hpc EXCEPT ![h] = IF hpc[h] = "broadcasting" THEN "receiving"
                                                            ELSE "done"]
    /\ hidx' = [hidx EXCEPT ![h] = 0]
    /\ hlive' = [hlive EXCEPT ![h] = FALSE]
    /\ cret' = CReturned("broadcast", FALSE)
    /\ UNCHANGED <<hroom, active_connections, user_rooms, roomKeys, userKeys,
                   closed, ipc, iroom, iidx, ilive, idet, attempted>>

\* The client of a connection goes away while its handler runs.
H_ClientClose(h) ==
    /\ hpc[h] \notin {"none", "done"}
    /\ ClientClose(h)
    /\ UNCHANGED epVars

EndpointNext ==
    \/ \E h \in Handles, room \in Rooms : H_Connect(h, room) /\ EndpointOnly
    \/ \E h \in Handles : H_Receive(h) /\ EndpointOnly
    \/ \E h \in Handles : H_Disconnected(h) /\ EndpointOnly
    \/ \E h \in Handles : H_Send(h) /\ EndpointOnly
    \/ \E h \in Handles, err \in SendErrors :
          H_Send_Fails(h, err) /\ EndpointOnly
    \/ \E h \in Handles : H_Broadcast_Return(h) /\ EndpointOnly
    \/ \E h \in Handles : H_ClientClose(h) /\ EndpointOnly

EndpointSpec == Init /\ [][EndpointNext]_<<cmVars, epVars>>

----------------------------------------------------------------------------
\* sessions/SessionManager.py: two dicts under one threading.Lock, used by
\* one calling thread. A method whose body is one with block that calls no
\* other method of the manager is one step. A method of Nesting is two: it
\* takes the lock, then runs its body, and where the body calls another
\* method, that method's with self.lock is an acquire of a lock the thread
\* holds already. threading.Lock is not reentrant: the acquire waits for a
\* release that only the waiting thread could make.

\* A step of the session manager alone.
SessionOnly ==
    UNCHANGED <<vars, taskVars, pqVars, consVars, cmVars, epVars>>

\* The thread is outside every call and the lock is free for it.
CanEnter == spos = "idle" /\ smLock = "free"

\* SessionManager.create_session(user_id), lines 32-36.
Create_Session(user_id) ==
    /\ CanEnter
    /\ nextSid <= MaxSessions
    /\ nextSid' = nextSid + 1
    /\ sessions' = sessions \cup {nextSid}
    /\ sowner' = [sowner EXCEPT ![nextSid] = user_id]
    /\ sactive' = [sactive EXCEPT ![nextSid] = TRUE]
    /\ user_sessions' = [user_sessions EXCEPT ![user_id] = nextSid]
    /\ sret' = SReturned("create_session", {nextSid}, FALSE)
    /\ UNCHANGED <<sexpired, smLock, spos, scall>>

\* SessionManager.get_session(session_id), lines 40-44.
Get_Session(session_id) ==
    /\ CanEnter
    /\ sret' = SReturned("get_session",
                         IF session_id \in sessions /\ ~sexpired[session_id]
                           THEN {session_id} ELSE {},
                         FALSE)
    /\ UNCHANGED <<nextSid, sessions, sowner, sactive, sexpired,
                   user_sessions, smLock, spos, scall>>

\* SessionManager.terminate_session(session_id), lines 65-71.
Terminate_Session(session_id) ==
    /\ CanEnter
    /\ IF session_id \in sessions
         THEN /\ sessions' = sessions \ {session_id}
              /\ sactive' = [sactive EXCEPT ![session_id] = FALSE]
              /\ user_sessions' =
                    [user_sessions EXCEPT ![sowner[session_id]] = NoSid]
              /\ sret' = SReturned("terminate_session", {}, TRUE)
         ELSE /\ UNCHANGED <<sessions, sactive, user_sessions>>
              /\ sret' = SReturned("terminate_session", {}, FALSE)
    /\ UNCHANGED <<nextSid, sowner, sexpired, smLock, spos, scall>>

\* SessionManager.list_active_sessions, lines 95-96.
List_Active_Sessions ==
    /\ CanEnter
    /\ sret' = SReturned("list_active_sessions",
                         {sid \in sessions : sactive[sid]}, FALSE)
    /\ UNCHANGED <<nextSid, sessions, sowner, sactive, sexpired,
                   user_sessions, smLock, spos, scall>>

\* A method of Nesting is called and its with self.lock is entered (lines
\* 48, 56, 75, 83; is_user_active enters that of get_session_by_user).
Enter(op, user_id, session_id) ==
    /\ CanEnter
    /\ smLock' = "held"
    /\ spos' = "outer"
    /\ scall' = SCall(op, user_id, session_id)
    /\ sret' = SNoReturn
    /\ UNCHANGED <<nextSid, sessions, sowner, sactive, sexpired,
                   user_sessions>>

\* The body of the method reaches a call of get_session or terminate_session
\* (lines 51, 57, 78, 86).
CallsInner ==
    CASE scall.op \in {"get_session_by_user", "is_user_active",
                       "terminate_session_by_user"}
            -> user_sessions[scall.user] # NoSid
      [] scall.op = "refresh_session" -> TRUE
      [] scall.op = "clean_expired_sessions"
            -> {sid \in sessions : sexpired[sid]} # {}
      [] OTHER -> FALSE

\* The body under the lock. With no inner call the method returns None or
\* False and the with block releases the lock. With one, the inner method's
\* with self.lock gets the lock when it is free; the thread holds it, so it
\* waits.
Body ==
    /\ spos = "outer"
    /\ IF ~CallsInner
         THEN /\ smLock' = "free"
              /\ spos' = "idle"
              /\ scall' = SNoCall
              /\ sret' = SReturned(scall.op, {}, FALSE)
         ELSE /\ smLock # "free"
              /\ spos' = "blocked"
              /\ sret' = SNoReturn
              /\ UNCHANGED <<smLock, scall>>
    /\ UNCHANGED <<nextSid, sessions, sowner, sactive, sexpired,
                   user_sessions>>

\* Two hours pass since the session was created or refreshed.
Expire(session_id) ==
    /\ session_id \in sessions
    /\ ~sexpired[session_id]
    /\ sexpired' = [sexpired EXCEPT ![session_id] = TRUE]
    /\ sret' = SNoReturn
    /\ UNCHANGED <<nextSid, sessions, sowner, sactive, user_sessions, smLock,
                   spos, scall>>

SessionNext ==
    \/ \E u \in Users : Create_Session(u) /\ SessionOnly
    \/ \E sid \in Sids : Get_Session(sid) /\ SessionOnly
    \/ \E sid \in Sids : Terminate_Session(sid) /\ SessionOnly
    \/ List_Active_Sessions /\ SessionOnly
    \/ \E op \in {"get_session_by_user", "is_user_active",
                   "terminate_session_by_user"}, u \in Users :
          Enter(op, u, NoSid) /\ SessionOnly
    \/ \E sid \in Sids : Enter("refresh_session", NoUser, sid) /\ SessionOnly
    \/ Enter("clean_expired_sessions", NoUser, NoSid) /\ SessionOnly
    \/ Body /\ SessionOnly
    \/ \E sid \in Sids : Expire(sid) /\ SessionOnly

SessionSpec == Init /\ [][SessionNext]_smVars

----------------------------------------------------------------------------
\* Where an envelope is.
InQueue(i) == i \in Range(queue)
InPending(i) == i \in Range(pending)
InDequeue(i) == \E c \in Consumers : held[c] = i
Overdue(i) == ~acknowledged[i] /\ deqAge[i] > ack_timeout
B2N(b) == IF b THEN 1 ELSE 0

\* The step is one iteration of the scan's loop.
RequeueStep == rpc = "scan" /\ todo # <<>> /\ todo' # todo

\* C1: every envelope whose enqueue was accepted is in exactly one of the
\* deliverable queue, pending_ack (or on its way there inside a dequeue call)
\* and acknowledged; no id is in the queue and in pending_ack at once.
C1_StateExclusivity ==
    \A i \in accepted :
        /\ B2N(InQueue(i)) + B2N(InPending(i) \/ InDequeue(i))
              + B2N(acknowledged[i]) = 1
        /\ ~(InQueue(i) /\ InPending(i))

\* C2: a scan selects every pending entry that was dequeued more than
\* ack_timeout ago and is not acknowledged, and the iteration that handles
\* such an entry removes it from pending_ack and appends it, once, at the tail
\* of the deliverable queue in the same step.
C2_Redelivery ==
    [][ /\ (rpc = "sleep" /\ rpc' = "scan") =>
              \A i \in Range(pending) : Overdue(i) => i \in Range(todo')
        /\ (RequeueStep /\ Overdue(Head(todo))) =>
              /\ ~(Head(todo) \in Range(pending'))
              /\ queue' = Append(queue, Head(todo))
              /\ todo' = Tail(todo) ]_vars

\* C3: acknowledge(id) returns True exactly when id is in pending_ack; it then
\* removes that entry only and sets acknowledged, which was not set before (so
\* True is returned at most once per id); otherwise it returns False and
\* changes nothing.
C3_Acknowledge ==
    [][ last'.op = "acknowledge" =>
          /\ last'.ret \in {"True", "False"}
          /\ (last'.ret = "True") <=> InPending(last'.id)
          /\ InPending(last'.id) =>
                /\ ~acknowledged[last'.id]
                /\ acknowledged' = [acknowledged EXCEPT ![last'.id] = TRUE]
                /\ pending' = Pop(pending, last'.id)
                /\ UNCHANGED <<queue, held, todo>>
          /\ ~InPending(last'.id) =>
                UNCHANGED <<nextId, age, acknowledged, queue, pending, lock,
                            cpc, held, rpc, todo, rerr>> ]_vars

\* C3 witness: an id that was acknowledged is acknowledged again: False.
C3_Witness ==
    /\ last.op = "acknowledge"
    /\ last.ret = "False"
    /\ acknowledged[last.id]

\* C4: an enqueue that found the deliverable queue full hands no envelope
\* back: its outcome differs from the outcome of an accepted enqueue.
C4_QueueFullSignalled ==
    (last.op = "enqueue" /\ ~(last.id \in accepted)) => last.ret # "Message"

\* C5: the deliverable queue never holds more than MaxSize envelopes; an
\* enqueue at MaxSize leaves it as it is, an enqueue below MaxSize appends the
\* new envelope at the tail.
C5_CapacityBound ==
    /\ [](Len(queue) <= MaxSize)
    /\ [][ last'.op = "enqueue" =>
             IF Len(queue) >= MaxSize
               THEN queue' = queue
               ELSE queue' = Append(queue, last'.id) /\ last'.id = nextId ]_vars

\* C5 witness: an enqueue was rejected with the queue at MaxSize.
C5_Witness ==
    /\ last.op = "enqueue"
    /\ ~(last.id \in accepted)
    /\ Len(queue) = MaxSize

\* C6: an acknowledged envelope is in neither structure, is not being moved or
\* requeued, and is not what a dequeue returns.
C6_AckedNeverRedelivered ==
    /\ \A i \in Ids : acknowledged[i] =>
          /\ ~InQueue(i)
          /\ ~InPending(i)
          /\ ~InDequeue(i)
          /\ ~(i \in Range(todo))
    /\ (last.op = "dequeue" /\ last.ret = "Message") => ~acknowledged[last.id]

\* C6 witness: a scan runs while an acknowledged envelope is older than
\* ack_timeout and had been redelivered before it was acknowledged.
C6_Witness ==
    /\ rpc = "scan"
    /\ \E i \in requeued : acknowledged[i] /\ age[i] > ack_timeout

\* C7: an envelope in pending_ack that is never acknowledged is returned by
\* dequeue again, every time it is pending, and the cleanup thread never ends.
C7_RedeliveryLiveness ==
    /\ \A i \in Ids :
          InPending(i) ~>
              (acknowledged[i] \/ last = Returned("dequeue", i, "Message"))
    /\ [](rpc # "dead")

\* C8: a put_nowait that fails in the scan neither ends the cleanup thread nor
\* drops the envelope, and the other selected entries are still handled.
C8_ScanFailureIsolated ==
    /\ rpc # "dead"
    /\ rerr # NoId => (InQueue(rerr) \/ InPending(rerr) \/ InDequeue(rerr)
                         \/ acknowledged[rerr])

\* C9: an entry the scan selects for requeue was dequeued more than
\* ack_timeout ago.
C9_EligibilityFromDequeue ==
    \A k \in 1..Len(todo) : deqAge[todo[k]] > ack_timeout

\* Position of i in the deliverable queue.
Pos(i) == CHOOSE k \in 1..Len(queue) : queue[k] = i

C11_DequeueEmpty ==
    /\ [][ (last'.op = "dequeue" /\ cpc' = cpc) =>
              /\ queue = <<>>
              /\ last' = Returned("dequeue", NoId, "None")
              /\ UNCHANGED <<queue, pending, acknowledged, held, todo>> ]_vars
    /\ [](nextId <= MaxMsgs => ENABLED Enqueue)
    /\ [](lock = "free" => \A i \in Ids : ENABLED Acknowledge(i))

\* C11 witness: dequeue returned None while an envelope waits in pending_ack.
C11_Witness ==
    /\ last = Returned("dequeue", NoId, "None")
    /\ pending # <<>>
    /\ queue = <<>>

\* All the publishers' messages are acknowledged and nothing is left over.
AllAcknowledged ==
    /\ accepted = 1..Batch
    /\ \A i \in accepted : acknowledged[i]
    /\ queue = <<>>
    /\ pending = <<>>
    /\ \A c \in Consumers : held[c] = NoId /\ proc[c] = NoId

\* C12: with concurrent publishers whose messages all fit the queue and
\* subscribers that receive and acknowledge, every message put is in exactly
\* one place (queue, consumer or pending_ack, acknowledged) and never with two
\* consumers, no put is rejected, acknowledge returns True at most once per
\* id, and, on runs where no scan finds an entry timed out, all Batch
\* messages are eventually acknowledged and stay so.
C12_NoLossNoDuplicate ==
    /\ [](\A i \in accepted :
            /\ B2N(InQueue(i)) + B2N(InPending(i) \/ InDequeue(i))
                  + B2N(acknowledged[i]) = 1
            /\ Cardinality({c \in Consumers : held[c] = i}) <= 1)
    /\ [](last.op = "enqueue" => last.id \in accepted)
    /\ [][ (last'.op = "acknowledge" /\ last'.ret = "True") =>
              ~acknowledged[last'.id] ]_<<vars, taskVars>>
    /\ [](todo = <<>>) => <>[]AllAcknowledged

\* C12 witness: every message of the publishers is acknowledged, the last one
\* in the step just taken, and no scan requeued anything.
C12_Witness ==
    /\ AllAcknowledged
    /\ requeued = {}
    /\ last.op = "acknowledge"
    /\ last.ret = "True"

\* (priority, sequence) of x is not above that of y.
KeyLeq(x, y) == x[1] < y[1] \/ (x[1] = y[1] /\ x[2] <= y[2])

\* The step is a dequeue (of the PriorityQueue) that returned a pair.
DequeueReturns == pret'.op = "dequeue" /\ ~pret'.raised

\* C13: a dequeue that returns removes, and returns the pair of, the resident
\* element whose (priority, sequence) key is smallest: lower priority first,
\* and among equal priorities the one enqueued earlier.
C13_PriorityOrder ==
    [][ DequeueReturns =>
          \E k \in 1..Len(heap) :
              /\ pret'.seq = heap[k][2]
              /\ pret'.msg = heap[k][3]
              /\ \A j \in 1..Len(heap) : KeyLeq(heap[k], heap[j])
              /\ Range(heap') = Range(heap) \ {heap[k]}
              /\ Len(heap') = Len(heap) - 1 ]_pqVars

\* C13 witness: (5, a), (1, b), (5, c) were enqueued and dequeue returned b,
\* then a, then c.
C13_Witness ==
    /\ Len(grants) = 3
    /\ <<grants[1][1], grants[1][2]>> = <<5, "a">>
    /\ <<grants[2][1], grants[2][2]>> = <<1, "b">>
    /\ <<grants[3][1], grants[3][2]>> = <<5, "c">>
    /\ taken = << <<1, "b">>, <<0, "a">>, <<2, "c">> >>

\* C14: dequeue on an empty queue raises IndexError and leaves the heap and
\* the counter as they are; on a non-empty queue it does not raise, returns
\* (sequence, payload) of the one element it removes, and the size drops by 1.
C14_DequeueEmptyRaises ==
    [][ pret'.op = "dequeue" =>
          IF Len(heap) = 0
            THEN pret'.raised /\ UNCHANGED <<heap, counter>>
            ELSE /\ ~pret'.raised
                 /\ Len(heap') = Len(heap) - 1
                 /\ Range(heap') \subseteq Range(heap)
                 /\ \E e \in Range(heap) \ Range(heap') :
                       pret'.seq = e[2] /\ pret'.msg = e[3] ]_pqVars

\* C14 witness: dequeue raised on a queue that had been filled and drained.
C14_Witness ==
    /\ pret.op = "dequeue"
    /\ pret.raised
    /\ Len(taken) = MaxSeq

\* C15: peek changes neither the heap nor the counter, returns None on an
\* empty queue and otherwise the payload of the element with the smallest key,
\* which is what the next dequeue hands out; a peek right after a peek
\* returns the same.
C15_PeekPure ==
    [][ pret'.op = "peek" =>
          /\ UNCHANGED <<heap, counter, pqLock, ppc, parg>>
          /\ ~pret'.raised
          /\ Len(heap) = 0 => pret'.msg = "None"
          /\ Len(heap) > 0 =>
                /\ pret'.msg = HeapPop(heap).item[3]
                /\ \E k \in 1..Len(heap) :
                      /\ pret'.msg = heap[k][3]
                      /\ \A j \in 1..Len(heap) : KeyLeq(heap[k], heap[j])
          /\ pret.op = "peek" => pret' = pret ]_pqVars

\* C15 witness: peek returned the payload of an element that was not the
\* first to be enqueued, with elements of two priorities resident.
C15_Witness ==
    /\ pret.op = "peek"
    /\ Len(heap) = MaxSeq
    /\ heap[1][2] > 0
    /\ pret.msg = heap[1][3]
    /\ \E k \in 1..Len(heap) : heap[k][1] # heap[1][1]

\* C16: clear leaves an empty heap and counter 0; size, is_empty and peek then
\* answer 0, True and None; the first enqueue after it gets sequence 0, and the
\* numbers given since the last clear are distinct.
C16_ClearResets ==
    /\ [][ pret'.op = "clear" => heap' = <<>> /\ counter' = 0 ]_pqVars
    /\ [][ pret.op = "clear" =>
             /\ pret'.op = "size" => pret'.n = 0
             /\ pret'.op = "is_empty" => pret'.n = 1
             /\ pret'.op = "peek" => pret'.msg = "None"
             /\ epochSeqs' # epochSeqs => epochSeqs' = <<0>> ]_pqVars
    /\ [][ (epochSeqs = <<>> /\ epochSeqs' # <<>>) => epochSeqs' = <<0>> ]_pqVars
    /\ [](\A i, j \in 1..Len(epochSeqs) :
             i # j => epochSeqs[i] # epochSeqs[j])

\* C16 witness: after a clear of a queue that had given out several numbers,
\* the first enqueue got sequence 0 again.
C16_Witness ==
    /\ epochSeqs = <<0>>
    /\ Len(heap) = 1
    /\ heap[1][2] = 0
    /\ Cardinality(issued) > 1

\* The step gives a sequence number to an enqueue.
GivesNumber == Len(epochSeqs') = Len(epochSeqs) + 1

\* C17 as stated: no sequence number is ever given twice.
C17_NeverReused ==
    [][ GivesNumber => ~(epochSeqs'[Len(epochSeqs')] \in issued) ]_pqVars

\* C17 amended: between two consecutive clears the numbers given are 0, 1, 2,
\* ... in the order of the enqueues: strictly increasing, none given twice.
C17_IncreasingWithinEpoch ==
    /\ [](\A i \in 1..Len(epochSeqs) : epochSeqs[i] = i - 1)
    /\ [][ GivesNumber =>
             /\ ~(epochSeqs'[Len(epochSeqs')] \in Range(epochSeqs))
             /\ \A i \in 1..Len(epochSeqs) :
                   epochSeqs[i] < epochSeqs'[Len(epochSeqs')] ]_pqVars

\* C17 witness: the second epoch gave out 0 and 1, which the first epoch had
\* given out as well.
C17_Witness ==
    /\ epochSeqs = <<0, 1>>
    /\ Cardinality(issued) = MaxSeq
    /\ pret.op = "enqueue"

\* C18: at most one thread is inside the body of enqueue, and it holds
\* self.lock; every resident element carries as sequence number the rank at
\* which its enqueue got the lock since the last clear, so no two enqueues got
\* the same number and equal priorities leave in lock order.
C18_AtomicEnqueue ==
    /\ Cardinality({p \in Producers : ppc[p] # "idle"}) <= 1
    /\ \A p \in Producers : ppc[p] # "idle" => pqLock = p
    /\ \A k \in 1..Len(heap) :
          /\ heap[k][2] + 1 <= Len(grants)
          /\ <<grants[heap[k][2] + 1][1], grants[heap[k][2] + 1][2]>>
                = <<heap[k][1], heap[k][3]>>
    /\ \A i, j \in 1..Len(heap) : i # j => heap[i][2] # heap[j][2]
    /\ Len(epochSeqs) <= Len(grants)
    /\ \A i \in 1..Len(epochSeqs) : epochSeqs[i] = i - 1

\* C18 witness: p2 got the lock before p1 with the same priority, both
\* elements are resident and p1 is still inside enqueue.
C18_Witness ==
    /\ Len(grants) = 2
    /\ prevHolder = "p2"
    /\ grants[1][1] = grants[2][1]
    /\ ppc["p1"] = "pushed"
    /\ Len(heap) = 2
    /\ heap[1][3] = grants[1][2]

\* The step is a send_text of broadcast on a closed connection.
SendFails ==
    /\ ipc["broadcast"] = "running"
    /\ HasNext("broadcast")
    /\ closed[Cur("broadcast")]
    /\ attempted' # attempted

\* C19: when the send to one connection fails, broadcast goes on to the next
\* connection of the list and no exception leaves the call.
C19_BroadcastIsolation ==
    [][ SendFails =>
          /\ ipc'["broadcast"] = "running"
          /\ iidx'["broadcast"] = iidx["broadcast"] + 1
          /\ ~cret'.raised ]_cmVars

\* C20: a connection of user U is in active_connections[R] exactly when R is
\* in user_rooms[U].
C20_BidirectionalConsistency ==
    \A h \in Handles, room \in Rooms :
        h \in Range(active_connections[room])
           <=> room \in Range(user_rooms[Owner(h)])

\* C21: disconnect(handle, room, user_id) with the handle not registered to
\* the room, or the room absent from the user's list, does not raise and
\* leaves active_connections and user_rooms as they were (keys included), so
\* a second identical disconnect does what the first did.
C21_DisconnectNoOp ==
    [][\A h \in Handles, room \in Rooms :
          (/\ CM_Disconnect(h, room)
           /\ \/ h \notin Range(active_connections[room])
              \/ room \notin Range(user_rooms[Owner(h)]))
             => /\ ~cret'.raised
                /\ UNCHANGED <<active_connections, user_rooms,
                               roomKeys, userKeys>>]_cmVars

\* C22: every key present in active_connections maps to a non-empty list of
\* handles.
C22_NoEmptyRoom ==
    \A room \in roomKeys : active_connections[room] # <<>>

\* broadcast returned normally in this step, from the room it names.
BroadcastDone(room) ==
    /\ cret'.op = "broadcast"
    /\ ~cret'.raised
    /\ ipc["broadcast"] = "running"
    /\ iroom["broadcast"] = room

\* C23: a broadcast to room R that meets no send failure and no change of
\* R's list while it runs has called send_text on exactly the handles
\* registered under R, each registration once: on no handle registered only
\* under another room and on none that was disconnected from R before.
C23_BroadcastReach ==
    [][\A room \in Rooms :
          (BroadcastDone(room) /\ ~changed')
             => attempted' = active_connections'[room]]_cmVars

\* Reached: h1 moved from r1 to r2, h2 stayed in r1, and a broadcast to r1
\* has just returned having sent to h2 alone.
C23_Witness ==
    /\ cret = CReturned("broadcast", FALSE)
    /\ ~changed
    /\ attempted = <<"h2">>
    /\ active_connections["r1"] = <<"h2">>
    /\ active_connections["r2"] = <<"h1">>
    /\ user_rooms["u1"] = <<"r2">>

\* C24: a broadcast delivers over the handles registered for the room when
\* the call started: when it returns it has sent to no handle more often
\* than the handle was registered at the start (one connected meanwhile gets
\* nothing), and to every handle registered at the start that was not
\* disconnected meanwhile.
C24_SnapshotSemantics ==
    [][\A room \in Rooms :
          BroadcastDone(room)
             => /\ \A h \in Handles :
                      Count(attempted', h) <= Count(snapshot', h)
                /\ \A h \in Range(snapshot') \ parted' :
                      h \in Range(attempted')]_cmVars

\* C25: the registry does not deduplicate. Every connect of a handle to a
\* room adds one registration, whether or not the handle is there already;
\* every disconnect of a registered handle removes exactly one; and an
\* undisturbed broadcast sends to each handle as many times as it is
\* registered.
C25_NoDedup ==
    [][/\ \A h \in Handles, room \in Rooms :
             CM_Connect(h, room)
                => Count(active_connections'[room], h)
                      = Count(active_connections[room], h) + 1
       /\ \A h \in Handles, room \in Rooms :
             (CM_Disconnect(h, room) /\ h \in Range(active_connections[room]))
                => Count(active_connections'[room], h)
                      = Count(active_connections[room], h) - 1
       /\ \A room \in Rooms :
             (BroadcastDone(room) /\ ~changed')
                => \A h \in Handles :
                      Count(attempted', h)
                         = Count(active_connections'[room], h)]_cmVars

\* Reached: h1 is registered twice in r1 and a broadcast to r1 has just
\* returned having sent to h1 twice.
C25_Witness ==
    /\ cret = CReturned("broadcast", FALSE)
    /\ ~changed
    /\ active_connections["r1"] = <<"h1", "h1">>
    /\ attempted = <<"h1", "h1">>

\* A query accessor returned in this step.
Queried == cret'.op \in {"get_rooms_for_user", "get_connections_for_room"}

\* C26: get_rooms_for_user and get_connections_for_room never raise, give
\* an empty collection for a user or room that is not a key of the mapping,
\* and leave both mappings as they were, keys included.
C26_AccessorsPure ==
    [][Queried
         => /\ ~cret'.raised
            /\ UNCHANGED <<active_connections, user_rooms, roomKeys, userKeys>>
            /\ (cret'.op = "get_rooms_for_user" /\ cret'.key \notin userKeys)
                  => cret'.val = <<>>
            /\ (cret'.op = "get_connections_for_room"
                  /\ cret'.key \notin roomKeys)
                  => cret'.val = <<>>]_cmVars

\* Reached: u2 is known to the registry, u1 is not, and get_rooms_for_user
\* has just been called for u1.
C26_Witness ==
    /\ cret.op = "get_rooms_for_user"
    /\ cret.key = "u1"
    /\ cret.val = <<>>
    /\ userKeys = {"u2"}
    /\ roomKeys = {"r2"}

\* C29: a step that changes active_connections or user_rooms is a step of
\* connect or of disconnect, and such a step changes a list of one mapping
\* exactly when it changes a list of the other.
C29_SingleMutationPath ==
    [][/\ <<active_connections, user_rooms, roomKeys, userKeys>>'
             # <<active_connections, user_rooms, roomKeys, userKeys>>
          => \E h \in Handles, room \in Rooms :
                CM_Connect(h, room) \/ CM_Disconnect(h, room)
       /\ (\E h \in Handles, room \in Rooms :
              CM_Connect(h, room) \/ CM_Disconnect(h, room))
          => (active_connections' # active_connections
                <=> user_rooms' # user_rooms)]_cmVars

\* The step changes the deliverable queue or pending_ack.
Mutates == queue' # queue \/ pending' # pending

\* The step is taken by a thread that holds self.lock while it acts: the
\* cleanup thread inside its with block, or acknowledge or the insertion of
\* dequeue, which take the lock that was free and release it in the step.
UnderLock ==
    \/ lock = "reaper" /\ ReaperRequeue
    \/ lock = "free" /\ \E i \in Ids : Acknowledge(i)
    \/ lock = "free" /\ \E c \in Consumers : Insert(c)

\* C27: every step that changes the deliverable queue or pending_ack is
\* taken by the thread that holds self.lock (so enqueue, dequeue and the
\* cleanup thread are serialized), and a dequeue takes the head out of the
\* queue and puts it in pending_ack in one step.
C27_LockingDiscipline ==
    [][/\ Mutates => UnderLock
       /\ \A c \in Consumers :
             (cpc[c] = "idle" /\ queue' = Tail(queue) /\ queue # <<>>)
                => Head(queue) \in Range(pending')]_vars

\* The step calls put_nowait or get on self.queue: queue.Queue takes its own
\* mutex for the length of the call.
TakesQueueMutex ==
    \/ Enqueue
    \/ \E c \in Consumers : Get(c) \/ GetEmpty(c)
    \/ ReaperRequeue

\* The step is taken by the thread that holds self.lock from one step to the
\* next: the cleanup thread inside the with block of line 59.
ByLockHolder == lock = "reaper" /\ (ReaperRequeue \/ ReaperDone)

\* C28: no thread takes the mutex of the underlying queue.Queue while it
\* holds self.lock.
C28_OneLockAtATime == [][~(ByLockHolder /\ TakesQueueMutex)]_vars

\* C30: every envelope whose enqueue was accepted is in the deliverable
\* queue, in pending_ack, with a dequeue call that has taken it and not yet
\* recorded it, or acknowledged.
C30_NoEnvelopeLost ==
    \A i \in accepted :
        InQueue(i) \/ InPending(i) \/ InDequeue(i) \/ acknowledged[i]

\* The cleanup thread is the one thread that keeps self.lock from one step
\* to the next.
LockHeld == lock = "reaper"

\* C31: no thread of the acknowledged queue waits for a lock for ever. The
\* holder of self.lock is alive inside its scan and its next step waits for
\* nothing; each of its steps releases the lock or shortens the work left
\* under it; and with the lock free every call that takes it can go, while
\* the calls that take no lock can go at any time.
C31_DeadlockFree ==
    /\ [](LockHeld => /\ rpc = "scan"
                      /\ ENABLED (ReaperRequeue \/ ReaperDone))
    /\ [][(LockHeld /\ (ReaperRequeue \/ ReaperDone))
             => (lock' = "free" \/ Len(todo') < Len(todo))]_vars
    /\ [](~LockHeld
            => /\ lock = "free"
               /\ \A i \in Ids : ENABLED Acknowledge(i)
               /\ \A c \in Consumers : cpc[c] = "got" => ENABLED Insert(c)
               /\ ENABLED Get_Pending_Ack_Size
               /\ rpc = "sleep" => ENABLED ReaperScan)
    /\ [](/\ ENABLED Get_Queue_Size
          /\ nextId <= MaxMsgs => ENABLED Enqueue
          /\ \A c \in Consumers :
                cpc[c] = "idle" => ENABLED (Get(c) \/ GetEmpty(c)))

\* Reached: a dequeue call has its message and waits for self.lock, which
\* the cleanup thread holds with entries still to requeue.
C31_Witness ==
    /\ LockHeld
    /\ todo # <<>>
    /\ \E c \in Consumers : cpc[c] = "got"

\* C33: no two elements resident in the heap have the same sequence number,
\* so the comparison of two resident tuples is settled by priority and
\* sequence number and never reaches the messages.
C33_ResidentKeysUnique ==
    \A i, j \in 1..Len(heap) :
        i # j => /\ heap[i][2] # heap[j][2]
                 /\ <<heap[i][1], heap[i][2]>> # <<heap[j][1], heap[j][2]>>

\* Reached: after a clear, two elements of equal priority and equal message
\* are resident, with sequence numbers an earlier epoch had given out too.
C33_Witness ==
    /\ Len(heap) = 2
    /\ heap[1][1] = heap[2][1]
    /\ heap[1][3] = heap[2][3]
    /\ epochSeqs = <<0, 1>>
    /\ 2 \in issued

\* C32: a consumer that saw is_empty() = false and then calls dequeue never
\* gets the empty-queue error, whatever the other consumers and a caller of
\* clear do in between.
C32_CheckThenDequeue ==
    [][\A k \in Consumers :
          (kpc[k] = "checked" /\ kpc'[k] # "checked")
             => ~pret'.raised]_<<pqVars, consVars>>

\* C35: every SessionManager operation called by one thread with the lock
\* free returns and releases the lock: the thread never waits for the lock
\* it holds, and between calls the lock is free.
C35_OperationsReturn ==
    /\ spos # "blocked"
    /\ spos = "idle" => smLock = "free"

\* The two indices agree: an entry of user_sessions names a stored session of
\* that user, and every stored session is the one user_sessions has for its
\* user.
IndexConsistent ==
    /\ \A u \in Users :
          user_sessions[u] # NoSid
             => user_sessions[u] \in sessions /\ sowner[user_sessions[u]] = u
    /\ \A sid \in sessions : user_sessions[sowner[sid]] = sid

\* C36: the indices agree in every reachable state, and no step removes the
\* user_sessions entry that points to a session still stored after the step.
C36_IndexConsistency ==
    /\ []IndexConsistent
    /\ [][\A u \in Users :
             (user_sessions[u] # NoSid /\ user_sessions'[u] = NoSid)
                => user_sessions[u] \notin sessions']_smVars

\* C34: once the handler of a connection has terminated, for whatever
\* reason, the handle is in no list of active_connections for its room and
\* the room is not in the list of its user.
C34_HandlerCleansUp ==
    \A h \in Handles :
        hpc[h] = "done"
           => /\ h \notin Range(active_connections[hroom[h]])
              /\ hroom[h] \notin Range(user_rooms[Owner(h)])


====
